---- MODULE Spec2Model ----
(***************************************************************************)
(* Process lifecycle and task scheduling of the panel:                     *)
(*   lib/schedulerManager.js  (SchedulerManager: tasks, timers, execution) *)
(*   lib/pm2Manager.js        (supervisor operations on the PM2 daemon)    *)
(*   server.js                (the routes that call both)                  *)
(* Time is counted in whole minutes.  A Date is the number of minutes      *)
(* since the start of day 0; _calculateNextRun only changes the minute,    *)
(* hour and day fields of "now" and keeps its seconds, so comparing two    *)
(* such dates is comparing their minute counts.                            *)
(***************************************************************************)
EXTENDS Integers, Sequences, FiniteSets, TLC

(* ------------------------------ bounds -------------------------------- *)
MaxTasks == 2        \* task objects ever created
MaxLive == 1         \* task objects alive (listed, or held by a timer or execution) at once
MaxOps == 2          \* supervisor operations in flight at once
MaxTimers == 2       \* timeouts and intervals pending at once
MaxTime == 1620      \* the clock stops advancing here
TickStep == 60       \* minutes the clock advances when no timer is due sooner
StartTime == 1560    \* process start: day 1, 02:00
MaxCalls == 2        \* pm2Manager calls in progress at once
MaxLines == 5        \* lines of log.txt
MaxChildren == 2     \* children ConsoleManager spawns
MaxClock == 7        \* seconds ConsoleManager's clock runs
MaxTokens == 2       \* tokens generateToken hands out
MaxAuthTime == 36    \* hours authManager's clock runs
AuthStep == 12       \* hours between two looks at the clock

(* ------------------------- program constants -------------------------- *)
MinutesPerHour == 60
HoursPerDay == 24
MinutesPerDay == HoursPerDay * MinutesPerHour

(* JavaScript values that are not dates or numbers *)
NULL == -1           \* null
NaN == -2            \* NaN, and the Invalid Date
THROWS == -3         \* the call throws

Instances == {"bot1"}
TaskIds == 1..MaxTasks
Slots == 1..MaxOps

(* ------------------------- cron expressions --------------------------- *)
(* A cron expression is the sequence of its space-separated fields        *)
(* (cronExpression.split(' ')).  A field is "*", a number, or "*/N".      *)
Star == [k |-> "star", n |-> 0]
Num(n) == [k |-> "num", n |-> n]
Step(n) == [k |-> "step", n |-> n]

Daily0300 == <<Num(0), Num(3), Star, Star, Star>>          \* "0 3 * * *"
Hourly30 == <<Num(30), Star, Star, Star, Star>>            \* "30 * * * *"
Every15 == <<Step(15), Star, Star, Star, Star>>             \* "*/15 * * * *"
EveryZero == <<Step(0), Star, Star, Star, Star>>            \* "*/0 * * * *"
OneField == <<Num(5)>>                                      \* "5"

CronInputs == {Daily0300, Every15, OneField}

\* parseInt(field): "*" and "*/N" do not start with a digit
ParseInt(f) == IF f.k = "num" THEN f.n ELSE NaN

\* parseInt(field.slice(2)) of a "*/N" field
ParseStep(f) == f.n

\* Date.prototype.setMinutes(m): the minute field within the current hour
SetMinutes(d, m) ==
    IF d = NaN \/ m = NaN THEN NaN ELSE (d - (d % MinutesPerHour)) + m

\* Date.prototype.setHours(h): the hour field within the current day
SetHours(d, h) ==
    IF d = NaN \/ h = NaN THEN NaN
    ELSE (d - (d % MinutesPerDay)) + h * MinutesPerHour + (d % MinutesPerHour)

\* _calculateNextRun(cronExpression) evaluated at time t
CalculateNextRun(cron, t) ==
    IF Len(cron) < 5 THEN NULL
    ELSE LET minute == cron[1]
             hour == cron[2]
             n1 == IF minute # Star THEN SetMinutes(t, ParseInt(minute)) ELSE t
             n2 == IF hour # Star THEN SetHours(n1, ParseInt(hour)) ELSE n1
             n3 == IF n2 # NaN /\ n2 <= t
                   THEN IF hour # Star \/ minute # Star
                        THEN n2 + MinutesPerDay
                        ELSE n2 + 1
                   ELSE n2
         IN  IF n3 = NaN THEN THROWS ELSE n3      \* toISOString of Invalid Date

\* _getIntervalFromCron(cronExpression), in minutes
GetIntervalFromCron(cron) ==
    LET minute == cron[1]
    IN  IF minute.k = "step" THEN ParseStep(minute)
        ELSE IF Len(cron) < 2 THEN THROWS          \* hour is undefined
        ELSE LET hour == cron[2]
             IN  IF hour.k = "step" THEN ParseStep(hour) * MinutesPerHour
                 ELSE IF minute # Star /\ hour # Star THEN MinutesPerDay
                 ELSE IF minute = Star /\ hour = Star THEN 1
                 ELSE IF minute # Star /\ hour = Star THEN MinutesPerHour
                 ELSE MinutesPerHour


(* ------------------------------- state -------------------------------- *)
VARIABLES
    now,        \* Date.now(), in minutes
    heap,       \* the task objects ever allocated, by object number
    schedules,  \* this.schedules: the objects of the task array, in order
    saved,      \* contents of schedules.json: the records last written by _save
    timers,     \* this.timers: task id -> timer handle (0: no entry)
    armed,      \* the timeouts and intervals pending in the event loop
    ops,        \* pm2Manager calls awaiting the daemon, by slot
    procs,      \* the daemon's process table
    status,     \* instance registry: status of each instance ("absent": none)
    ev,         \* what the last step did
    prep,       \* the startProcess call that prepares the instance before the spawn
    cg,         \* the instance's registry record, its cgroup and its last spawn
    conn,       \* the shared connection to the daemon and the calls using it
    logf,       \* the instance's log.txt
    con,        \* ConsoleManager: its process map, the children and their timers
    auth        \* authManager: users.json, sessions.json and the clock, in hours

\* the state of the parts of the panel that the scheduler and the routes of
\* the process lifecycle do not touch
aux == <<cg, conn, logf, con, auth>>
\* the state of the scheduler, the lifecycle routes and the daemon
core == <<now, heap, schedules, saved, timers, armed, ops, procs, status, ev, prep>>
vars == <<now, heap, schedules, saved, timers, armed, ops, procs, status, ev, prep,
          cg, conn, logf, con, auth>>

NoTask == [id |-> 0, instanceId |-> "", action |-> "", cronExpression |-> <<>>,
           enabled |-> FALSE, lastRun |-> NULL, nextRun |-> NULL]
\* a task object that nothing refers to any more (garbage)
Tomb == [NoTask EXCEPT !.id = -1]
\* no startProcess call with preparation has been made: pc is the statement
\* the call is at; venv: venv/bin/python exists in the instance directory;
\* log: the lines written to the instance's log.txt; result, reason: how the
\* promise settled
NoStart == [pc |-> "idle", runtime |-> "", autoInstall |-> FALSE, manifest |-> FALSE,
            venv |-> FALSE, install |-> "none", log |-> <<>>, result |-> "none",
            reason |-> "none"]
Idle == [inst |-> "", op |-> "idle", by |-> "", oid |-> 0]

\* the literal "max" that a cgroup's memory.max and memory.high hold while no
\* limit has been written to them
NoLimit == -4
\* no record in the instance registry; no process spawned by the daemon
NoRecord == [runtime |-> "", maxMemory |-> 0]
NoSpawn == [interpreter |-> "", script |-> "", threshold |-> 0]
\* what the last request did: the handler, its HTTP status, what the Memory
\* Limiter call it made returned ("none": it made none), and the memory.max
\* it found
\* getMemoryUsage's null
NoUsage == [null |-> TRUE, current |-> 0, max |-> 0, percent |-> 0]
Quiet == [op |-> "init", res |-> 0, val |-> "none", mb |-> 0, usage |-> NoUsage,
          found |-> NULL]
\* the instance and its cgroup before any request.  available:
\* /sys/fs/cgroup/cgroup.controllers exists; group: the directory
\* /sys/fs/cgroup/panel/<id> exists; max, high: the contents of its
\* memory.max and memory.high (NULL while there is no group)
Limiter(available) ==
    [available |-> available, group |-> FALSE, max |-> NULL, high |-> NULL,
     rec |-> NoRecord, spawn |-> NoSpawn, last |-> Quiet]
\* pm2's client: not connected, no call in progress
Closed == [open |-> FALSE, calls |-> <<>>]
\* log.txt: the bytes of each of its lines, and the bytes the last append added
\* (0: it returned false)
EmptyLog == [lines |-> <<>>, added |-> 0]
\* ConsoleManager after its constructor: time in seconds, the index of the
\* child that the map holds for the instance (0: no entry), the children spawned
\* no entry of sessions.json
NoSession == [username |-> "", expiresAt |-> NULL]
\* authManager before any call: users.json holds the default admin,
\* sessions.json is empty; issued and revoked remember, for each token, the
\* session it was issued with and whether it was logged out or its user deleted
NoLogin == [users |-> {"admin"},
            sessions |-> [k \in 1..MaxTokens |-> NoSession],
            issued |-> [k \in 1..MaxTokens |-> NoSession],
            revoked |-> {}, time |-> 0,
            last |-> [op |-> "none", token |-> 0, res |-> "none"]]
NoConsole == [time |-> 0, entry |-> 0, children |-> <<>>]
\* what the last step was and answered.  op: the handler that ran ("timer":
\* a timer callback; "start", "stop", "restart", "delete": a route continuing
\* after the daemon's answer; "execute": _executeSchedule continuing after
\* it).  res, for a call that did not finish an execution of a task: "ok" (it
\* returned), "notfound" (it reported an unknown id), "threw"; for a step in
\* which _executeSchedule ran to its end: "completed" (it logged the
\* completion line), "caught" (its catch block ran instead)
Event(op, res, fin) == [op |-> op, res |-> IF fin = "none" THEN res ELSE fin]

Actions == {"restart", "command"}
\* the actions of the tasks the requests create; the tasks that restart an
\* instance are the ones loaded at start-up
CreateActions == {"command"}
SupervisorActions == {"start", "stop", "restart"}

\* the objects of the task array, as a set
Listed(sch) == {sch[i] : i \in 1..Len(sch)}

\* JSON.stringify(this.schedules)
Snapshot(hp, sch) == [i \in 1..Len(sch) |-> hp[sch[i]]]

\* this.schedules.find(s => s.id === scheduleId): the first object with that
\* id, 0 when there is none
Find(hp, sch, id) ==
    LET hits == {i \in 1..Len(sch) : hp[sch[i]].id = id}
    IN  IF hits = {} THEN 0
        ELSE sch[CHOOSE i \in hits : \A j \in hits : i <= j]

\* the heap without the objects that neither the task array, a pending timer's
\* closure nor an execution in progress refers to
Collect(hp, sch, ar, os) ==
    [o \in DOMAIN hp |->
        IF /\ hp[o] # NoTask
           /\ o \notin Listed(sch)
           /\ \A t \in ar : t.oid # o
           /\ \A s \in DOMAIN os : os[s].oid # o
        THEN Tomb ELSE hp[o]]

\* Object.assign(schedule, updates)
Assign(rec, updates) ==
    [f \in DOMAIN rec |-> IF f \in DOMAIN updates THEN updates[f] ELSE rec[f]]

\* a handle that no pending timer and no registry entry holds
FreshHandle(tm, ar) ==
    LET used == {t.h : t \in ar} \cup {tm[i] : i \in DOMAIN tm}
    IN  CHOOSE h \in 1..(Cardinality(used) + 1) : h \notin used

\* _stopScheduler(scheduleId) on registry tm and pending timers ar
StopScheduler(tm, ar, id) ==
    IF tm[id] = 0 THEN [timers |-> tm, armed |-> ar]
    ELSE [timers |-> [tm EXCEPT ![id] = 0],
          armed |-> {t \in ar : t.h # tm[id]}]

\* _startScheduler(schedule) at time t on registry tm and pending timers ar;
\* threw: _getIntervalFromCron raised
StartScheduler(tm, ar, oid, rec, t) ==
    IF ~rec.enabled THEN [threw |-> FALSE, timers |-> tm, armed |-> ar]
    ELSE LET interval == GetIntervalFromCron(rec.cronExpression)
             initialDelay == IF rec.nextRun # NULL
                             THEN IF rec.nextRun - t > 0 THEN rec.nextRun - t ELSE 0
                             ELSE 0
             h == FreshHandle(tm, ar)
         IN  IF interval = THROWS
             THEN [threw |-> TRUE, timers |-> tm, armed |-> ar]
             ELSE [threw |-> FALSE,
                   timers |-> [tm EXCEPT ![rec.id] = h],
                   armed |-> ar \cup {[h |-> h, kind |-> "timeout", due |-> t + initialDelay,
                                       interval |-> interval, oid |-> oid]}]

(* ------------------------------ start-up ------------------------------ *)
\* what a task written by an earlier run of the panel at time t looks like
Persisted(cron, enabled, t) ==
    [id |-> 1, instanceId |-> "bot1", action |-> "restart", cronExpression |-> cron,
     enabled |-> enabled, lastRun |-> NULL, nextRun |-> CalculateNextRun(cron, t)]

\* schedules.json when the process starts: empty, or one task written a day
\* ago (its nextRun has passed) or half an hour ago (its nextRun is ahead)
Stores ==
    {<<>>} \cup {<<Persisted(c, e, t)>> :
                    c \in {Daily0300}, e \in BOOLEAN,
                    t \in {StartTime - MinutesPerDay, StartTime - 30}}

\* the process starting with schedules.json holding store: the constructor
\* runs _load, then _startAllSchedulers
Core(store) ==
       LET hp == [o \in TaskIds |-> IF o <= Len(store) THEN store[o] ELSE NoTask]
           sch == [i \in 1..Len(store) |-> i]
           none == [i \in TaskIds |-> 0]
           st == IF Len(store) = 1
                 THEN StartScheduler(none, {}, 1, store[1], StartTime)
                 ELSE [threw |-> FALSE, timers |-> none, armed |-> {}]
       IN  /\ now = StartTime
           /\ heap = hp
           /\ schedules = sch
           /\ saved = store
           /\ timers = st.timers
           /\ armed = st.armed
           /\ ops = [s \in Slots |-> Idle]
           /\ procs = {}
           /\ status = [i \in Instances |-> "stopped"]
           /\ ev = Event("init", "ok", "none")
           /\ prep = NoStart

\* the panel after server.js has loaded its modules: no instance, no cgroup, no
\* connection to the daemon, an empty log, no console child
Boot(store) ==
    /\ Core(store)
    /\ cg = Limiter(FALSE)
    /\ conn = Closed
    /\ logf = EmptyLog
    /\ con = NoConsole
    /\ auth = NoLogin

Init == \E store \in Stores : Boot(store)

(* ----------------------------- scheduler ------------------------------ *)
\* ids of the tasks in the array
UsedIds == {heap[o].id : o \in Listed(schedules)}

\* create(schedule): the new task gets a fresh id
Create(inst, action, cron, enabled) ==
    /\ Cardinality(armed) < MaxTimers
    /\ Cardinality({o \in TaskIds : heap[o] \notin {NoTask, Tomb}}) < MaxLive
    /\ \E o \in TaskIds : heap[o] = NoTask
    /\ \E i \in TaskIds : i \notin {heap[o].id : o \in TaskIds} /\ timers[i] = 0
    /\ LET oid == CHOOSE o \in TaskIds : heap[o] = NoTask /\ \A p \in TaskIds : heap[p] = NoTask => o <= p
           id == CHOOSE i \in TaskIds : i \notin {heap[o].id : o \in TaskIds} /\ timers[i] = 0
           nr == CalculateNextRun(cron, now)
           rec == [id |-> id, instanceId |-> inst, action |-> action, cronExpression |-> cron,
                   enabled |-> enabled, lastRun |-> NULL, nextRun |-> nr]
           hp == [heap EXCEPT ![oid] = rec]
           sch == Append(schedules, oid)
           st == StartScheduler(timers, armed, oid, rec, now)
       IN  IF nr = THROWS
           THEN /\ ev' = Event("create", "threw", "none")
                /\ UNCHANGED <<heap, schedules, saved, timers, armed>>
           ELSE /\ heap' = hp
                /\ schedules' = sch
                /\ saved' = Snapshot(hp, sch)
                /\ timers' = st.timers
                /\ armed' = st.armed
                /\ ev' = Event("create", IF st.threw THEN "threw" ELSE "ok", "none")
    /\ UNCHANGED <<aux, prep, now, ops, procs, status>>

\* the request bodies sent to PUT /api/schedules/:scheduleId
UpdateInputs(id) ==
    {[enabled |-> b] : b \in BOOLEAN}
    \cup {[cronExpression |-> c] : c \in CronInputs}
    \cup {[enabled |-> FALSE, cronExpression |-> Every15]}
    \cup {[id |-> j] : j \in UsedIds \ {id}}

\* update(scheduleId, updates)
Update(id, updates) ==
    LET oid == Find(heap, schedules, id)
    IN  /\ Cardinality(armed) < MaxTimers
        /\ IF oid = 0
           THEN /\ ev' = Event("update", "notfound", "none")
                /\ UNCHANGED <<heap, saved, timers, armed>>
           ELSE LET rec1 == Assign(heap[oid], updates)
                    nr == IF "cronExpression" \in DOMAIN updates
                          THEN CalculateNextRun(updates.cronExpression, now)
                          ELSE rec1.nextRun
                    rec2 == [rec1 EXCEPT !.nextRun = nr]
                    hp == [heap EXCEPT ![oid] = rec2]
                    sp == StopScheduler(timers, armed, id)
                    st == StartScheduler(sp.timers, sp.armed, oid, rec2, now)
                IN  IF nr = THROWS
                    THEN /\ heap' = [heap EXCEPT ![oid] = rec1]
                         /\ ev' = Event("update", "threw", "none")
                         /\ UNCHANGED <<saved, timers, armed>>
                    ELSE /\ heap' = hp
                         /\ saved' = Snapshot(hp, schedules)
                         /\ timers' = st.timers
                         /\ armed' = st.armed
                         /\ ev' = Event("update", IF st.threw THEN "threw" ELSE "ok", "none")
        /\ UNCHANGED <<aux, prep, now, schedules, ops, procs, status>>

\* delete(scheduleId)
Delete(id) ==
    LET sp == StopScheduler(timers, armed, id)
        sch == SelectSeq(schedules, LAMBDA o : heap[o].id # id)
    IN  /\ timers' = sp.timers
        /\ armed' = sp.armed
        /\ schedules' = sch
        /\ saved' = Snapshot(heap, sch)
        /\ heap' = Collect(heap, sch, sp.armed, ops)
        /\ ev' = Event("delete", "ok", "none")
        /\ UNCHANGED <<aux, prep, now, ops, procs, status>>

\* toggle(scheduleId)
Toggle(id) ==
    LET oid == Find(heap, schedules, id)
    IN  /\ oid # 0 /\ ~heap[oid].enabled => Cardinality(armed) < MaxTimers
        /\ IF oid = 0
           THEN /\ ev' = Event("toggle", "notfound", "none")
                /\ UNCHANGED <<heap, saved, timers, armed>>
           ELSE LET rec == [heap[oid] EXCEPT !.enabled = ~heap[oid].enabled]
                    hp == [heap EXCEPT ![oid] = rec]
                    sp == StopScheduler(timers, armed, id)
                    st == StartScheduler(timers, armed, oid, rec, now)
                IN  /\ heap' = hp
                    /\ saved' = Snapshot(hp, schedules)
                    /\ timers' = IF rec.enabled THEN st.timers ELSE sp.timers
                    /\ armed' = IF rec.enabled THEN st.armed ELSE sp.armed
                    /\ ev' = Event("toggle", IF st.threw THEN "threw" ELSE "ok", "none")
        /\ UNCHANGED <<aux, prep, now, schedules, ops, procs, status>>

(* ----------------------------- execution ------------------------------ *)
\* _executeSchedule after its switch, at time t, for task object oid:
\* ok tells whether the awaited supervisor call resolved
FinishExecution(hp, sch, sv, oid, ok, t) ==
    LET target == Find(hp, sch, hp[oid].id)
        nr == CalculateNextRun(hp[oid].cronExpression, t)
    IN  IF ~ok
        THEN [heap |-> hp, saved |-> sv, fin |-> "caught"]
        ELSE IF target = 0
        THEN [heap |-> hp, saved |-> sv, fin |-> "completed"]
        ELSE IF nr = THROWS
        THEN [heap |-> [hp EXCEPT ![target].lastRun = t], saved |-> sv, fin |-> "caught"]
        ELSE LET hp2 == [hp EXCEPT ![target].lastRun = t, ![target].nextRun = nr]
             IN  [heap |-> hp2, saved |-> Snapshot(hp2, sch), fin |-> "completed"]

\* the pending calls once the one in slot s has settled: the calls made
\* after it move down one slot
Pending(os, s) ==
    [r \in Slots |-> IF r < s THEN os[r] ELSE IF r < MaxOps THEN os[r + 1] ELSE Idle]

\* the calls awaiting the daemon form a set: the daemon may answer them in
\* any order, so they are kept in one fixed order (by request, caller and
\* task), the free slots last
Key(c) ==
    (CASE c.op = "start" -> 100 [] c.op = "stop" -> 200 [] c.op = "restart" -> 300
       [] c.op = "delete" -> 400 [] c.op = "describe" -> 500 [] OTHER -> 600)
    + (CASE c.by = "api" -> 10 [] c.by = "timer" -> 20 [] OTHER -> 30) + c.oid
\* the calls with the call c added at its place in that order
Enqueue(os, c) ==
    LET n == Cardinality({r \in Slots : Key(os[r]) <= Key(c)})
    IN  [s \in Slots |-> IF s <= n THEN os[s] ELSE IF s = n + 1 THEN c ELSE os[s - 1]]
FreeSlot == CHOOSE s \in Slots : ops[s] = Idle /\ \A r \in Slots : ops[r] = Idle => s <= r

\* _executeSchedule(schedule) up to its first await (start, stop, restart), or
\* to its end (the other actions do not await); by is "timer" or "runNow"
BeginExecution(oid, by) ==
    LET rec == heap[oid]
        f == FinishExecution(heap, schedules, saved, oid, TRUE, now)
    IN  IF rec.action \in SupervisorActions
        THEN /\ \E s \in Slots : ops[s] = Idle
             /\ ops' = Enqueue(ops, [inst |-> rec.instanceId, op |-> rec.action,
                                     by |-> by, oid |-> oid])
             /\ ev' = Event(by, "ok", "none")
             /\ UNCHANGED <<heap, saved>>
        ELSE /\ heap' = f.heap
             /\ saved' = f.saved
             /\ ev' = Event(by, "ok", f.fin)
             /\ UNCHANGED ops

\* the timeout or interval callback armed by _startScheduler
TimerFire(t) ==
    /\ t \in armed
    /\ t.due <= now
    /\ BeginExecution(t.oid, "timer")
    /\ IF t.kind = "timeout"
       THEN LET rest == armed \ {t}
                tm == [timers EXCEPT ![heap[t.oid].id] = 0]
                h == FreshHandle(tm, rest)
            IN  /\ armed' = rest \cup {[h |-> h, kind |-> "interval", due |-> now + t.interval,
                                        interval |-> t.interval, oid |-> t.oid]}
                /\ timers' = [timers EXCEPT ![heap[t.oid].id] = h]
       ELSE /\ armed' = (armed \ {t}) \cup {[t EXCEPT !.due = now + t.interval]}
            /\ timers' = timers
    /\ UNCHANGED <<aux, prep, now, schedules, procs, status>>

\* runNow(scheduleId)
RunNow(id) ==
    LET oid == Find(heap, schedules, id)
    IN  /\ IF oid = 0
           THEN /\ ev' = Event("runNow", "notfound", "none")
                /\ UNCHANGED <<heap, saved, ops>>
           ELSE BeginExecution(oid, "runNow")
        /\ UNCHANGED <<aux, prep, now, schedules, timers, armed, procs, status>>

\* the clock: timers fire when they are due, so time passes only up to the
\* next due timer; the daemon answers a call within the minute
Tick ==
    /\ now < MaxTime
    /\ \A t \in armed : t.due > now
    /\ \A s \in Slots : ops[s] = Idle
    /\ LET stops == {now + TickStep, MaxTime} \cup {t.due : t \in armed}
       IN  now' = CHOOSE m \in stops : \A k \in stops : m <= k
    /\ ev' = Event("tick", "ok", "none")
    /\ UNCHANGED <<aux, prep, heap, schedules, saved, timers, armed, ops, procs, status>>

(* ----------------------------- supervisor ----------------------------- *)
\* name: `bot-${userId}`
ProcName(i) == <<"bot-", i>>

Named(ps, i) == {p \in ps : p.name = ProcName(i)}

\* the pid the operating system gives a new process: one that no process of
\* the table has, the process it replaces included
FreshPid(ps) ==
    LET used == {p.pid : p \in ps}
    IN  CHOOSE n \in 1..(Cardinality(used) + 1) : n \notin used

\* a daemon that spawns a process on every start, whatever runs under the name
DaemonStartSpawns(ps, i, dir) ==
    IF ~dir THEN [procs |-> ps, ok |-> FALSE]
    ELSE [procs |-> ps \cup {[name |-> ProcName(i), pid |-> FreshPid(ps), status |-> "online"]},
          ok |-> TRUE]

\* pm2.start({name: `bot-${userId}`, ...}): the daemon starts a process
\* under a name it does not know and restarts the one it knows; the start
\* fails when the instance directory (cwd, script) is missing
DaemonStart(ps, i, dir) ==
    IF ~dir THEN [procs |-> ps, ok |-> FALSE]
    ELSE [procs |-> (ps \ Named(ps, i))
                      \cup {[name |-> ProcName(i), pid |-> FreshPid(ps), status |-> "online"]},
          ok |-> TRUE]

\* pm2.stop(`bot-${userId}`)
DaemonStop(ps, i) ==
    IF Named(ps, i) = {} THEN [procs |-> ps, ok |-> FALSE]
    ELSE [procs |-> (ps \ Named(ps, i))
                      \cup {[name |-> ProcName(i), pid |-> 0, status |-> "stopped"]},
          ok |-> TRUE]

\* a daemon that starts a process when asked to restart a name it does not know
DaemonRestartSpawns(ps, i) ==
    [procs |-> (ps \ Named(ps, i))
                 \cup {[name |-> ProcName(i), pid |-> FreshPid(ps), status |-> "online"]},
     ok |-> TRUE]

\* pm2.restart(`bot-${userId}`)
\* a daemon that restarts by dropping the process from its table
DaemonRestartForgets(ps, i) ==
    IF Named(ps, i) = {} THEN [procs |-> ps, ok |-> FALSE]
    ELSE [procs |-> ps \ Named(ps, i), ok |-> TRUE]

DaemonRestart(ps, i) ==
    IF Named(ps, i) = {} THEN [procs |-> ps, ok |-> FALSE]
    ELSE [procs |-> (ps \ Named(ps, i))
                      \cup {[name |-> ProcName(i), pid |-> FreshPid(ps), status |-> "online"]},
          ok |-> TRUE]

\* pm2.delete(`bot-${userId}`)
DaemonDelete(ps, i) ==
    IF Named(ps, i) = {} THEN [procs |-> ps, ok |-> FALSE]
    ELSE [procs |-> ps \ Named(ps, i), ok |-> TRUE]

\* pm2.describe(`bot-${userId}`): the list of the processes under the name
DaemonDescribe(ps, i) == [procs |-> ps, ok |-> TRUE]

\* what getStatus resolves with: 'not_found' for an empty list, else the
\* status of the first process of the list
GetStatus(ps, i) ==
    IF Named(ps, i) = {} THEN "not_found"
    ELSE (CHOOSE p \in Named(ps, i) : TRUE).status

Daemon(ps, op, i, dir) ==
    CASE op = "start" -> DaemonStart(ps, i, dir)
      [] op = "stop" -> DaemonStop(ps, i)
      [] op = "restart" -> DaemonRestart(ps, i)
      [] op = "delete" -> DaemonDelete(ps, i)
      [] op = "describe" -> DaemonDescribe(ps, i)

\* the pids written to cgroup.procs of the instance's group: assignProcess is
\* the only writer, and no route and no function of the supervisor calls it
CgroupProcs(i) == {}

\* startProcess / stopProcess / restartProcess / deleteProcess up to the
\* await of the daemon's answer
Call(op, i, by, oid) ==
    /\ \E s \in Slots : ops[s] = Idle
    /\ ops' = Enqueue(ops, [inst |-> i, op |-> op, by |-> by, oid |-> oid])

\* POST /api/instance/:id/start
ApiStart(i) ==
    /\ IF status[i] = "absent"
       THEN /\ ev' = Event("api-start", "notfound", "none")
            /\ UNCHANGED ops
       ELSE /\ Call("start", i, "api", 0)
            /\ ev' = Event("api-start", "ok", "none")
    /\ UNCHANGED <<aux, prep, now, heap, schedules, saved, timers, armed, procs, status>>

\* POST /api/instance/:id/stop
ApiStop(i) ==
    /\ Call("stop", i, "api", 0)
    /\ ev' = Event("api-stop", "ok", "none")
    /\ UNCHANGED <<aux, prep, now, heap, schedules, saved, timers, armed, procs, status>>

\* POST /api/instance/:id/restart
ApiRestart(i) ==
    /\ Call("restart", i, "api", 0)
    /\ ev' = Event("api-restart", "ok", "none")
    /\ UNCHANGED <<aux, prep, now, heap, schedules, saved, timers, armed, procs, status>>

\* DELETE /api/instance/:id
ApiDelete(i) ==
    /\ Call("delete", i, "api", 0)
    /\ ev' = Event("api-delete", "ok", "none")
    /\ UNCHANGED <<aux, prep, now, heap, schedules, saved, timers, armed, procs, status>>

\* GET /api/instance/:id
ApiStatus(i) ==
    /\ IF status[i] = "absent"
       THEN /\ ev' = Event("api-status", "notfound", "none")
            /\ UNCHANGED ops
       ELSE /\ Call("describe", i, "api", 0)
            /\ ev' = Event("api-status", "ok", "none")
    /\ UNCHANGED <<aux, prep, now, heap, schedules, saved, timers, armed, procs, status>>

\* POST /api/instance: instanceManager.create
ApiCreate(i) ==
    /\ IF status[i] # "absent"
       THEN /\ ev' = Event("api-create", "threw", "none")
            /\ UNCHANGED status
       ELSE /\ status' = [status EXCEPT ![i] = "stopped"]
            /\ ev' = Event("api-create", "ok", "none")
    /\ UNCHANGED <<aux, prep, now, heap, schedules, saved, timers, armed, ops, procs>>

\* the route's statements after its awaited call
ApiContinue(st, op, i, ok) ==
    CASE op = "delete" -> [st EXCEPT ![i] = "absent"]
      [] op = "start" /\ ok /\ st[i] # "absent" -> [st EXCEPT ![i] = "running"]
      [] op = "restart" /\ ok /\ st[i] # "absent" -> [st EXCEPT ![i] = "running"]
      [] op = "stop" /\ ok /\ st[i] # "absent" -> [st EXCEPT ![i] = "stopped"]
      [] OTHER -> st

\* a supervisor that goes on to the daemon's call whatever connect answered
SettledIgnoringConnect(ps, op, i, up, ok) ==
    IF ~ok THEN "threw"
    ELSE IF op = "describe" THEN GetStatus(ps, i)
    ELSE "ok"

\* what the promise of the call settles with: the value getStatus resolves
\* with, "ok" for the other calls, "unavailable" when connect rejected,
\* "threw" when the daemon answered with an error
Settled(ps, op, i, up, ok) ==
    IF ~up THEN "unavailable"
    ELSE IF ~ok THEN "threw"
    ELSE IF op = "describe" THEN GetStatus(ps, i)
    ELSE "ok"

\* the call in slot s settles and the caller continues; up: pm2.connect
\* reached the daemon (the call rejects with connect's error when it did not)
\* an answer after which a failed execution clears the timers of its task
AnswerDisarms(s, up) ==
    /\ ops[s] # Idle
    /\ LET c == ops[s]
           d == IF up THEN Daemon(procs, c.op, c.inst, status[c.inst] # "absent")
                ELSE [procs |-> procs, ok |-> FALSE]
           f == FinishExecution(heap, schedules, saved, c.oid, d.ok, now)
           rest == Pending(ops, s)
       IN  /\ procs' = d.procs
           /\ ops' = rest
           /\ IF c.by = "api"
              THEN /\ status' = ApiContinue(status, c.op, c.inst, d.ok)
                   /\ ev' = Event(c.op, Settled(d.procs, c.op, c.inst, up, d.ok), "none")
                   /\ UNCHANGED <<heap, saved>>
              ELSE /\ heap' = Collect(f.heap, schedules, armed, rest)
                   /\ saved' = f.saved
                   /\ ev' = Event("execute", IF d.ok THEN "ok" ELSE "threw", f.fin)
                   /\ UNCHANGED status
    /\ armed' = IF ops[s].by # "api" /\ ev'.res = "caught"
                THEN {t \in armed : t.oid # ops[s].oid} ELSE armed
    /\ UNCHANGED <<aux, prep, now, schedules, timers>>


Answer(s, up) ==
    /\ ops[s] # Idle
    /\ LET c == ops[s]
           d == IF up THEN Daemon(procs, c.op, c.inst, status[c.inst] # "absent")
                ELSE [procs |-> procs, ok |-> FALSE]
           f == FinishExecution(heap, schedules, saved, c.oid, d.ok, now)
           rest == Pending(ops, s)
       IN  /\ procs' = d.procs
           /\ ops' = rest
           /\ IF c.by = "api"
              THEN /\ status' = ApiContinue(status, c.op, c.inst, d.ok)
                   /\ ev' = Event(c.op, Settled(d.procs, c.op, c.inst, up, d.ok), "none")
                   /\ UNCHANGED <<heap, saved>>
              ELSE /\ heap' = Collect(f.heap, schedules, armed, rest)
                   /\ saved' = f.saved
                   /\ ev' = Event("execute", IF d.ok THEN "ok" ELSE "threw", f.fin)
                   /\ UNCHANGED status
    /\ UNCHANGED <<aux, prep, now, schedules, timers, armed>>

Reply(s) == \E up \in BOOLEAN : Answer(s, up)

(* ------------------- startProcess with preparation -------------------- *)
\* the statement startProcess goes to after ensureVenv: installDependencies
\* when autoInstall is set, else connect
AfterVenv(c) == IF c.autoInstall THEN "install" ELSE "connect"

\* startProcess(userId, runtime, maxMemory, options) up to its first await;
\* manifest: the requirements file exists in the instance directory
StartProcess(i, runtime, autoInstall, manifest) ==
    /\ prep.pc \in {"idle", "done"}
    /\ status[i] # "absent"
    /\ LET c == [NoStart EXCEPT !.runtime = runtime, !.autoInstall = autoInstall,
                                !.manifest = manifest, !.venv = prep.venv]
       IN  prep' = [c EXCEPT !.pc = IF runtime = "python" THEN "venv" ELSE AfterVenv(c)]
    /\ ev' = Event("startProcess", "ok", "none")
    /\ UNCHANGED <<aux, now, heap, schedules, saved, timers, armed, ops, procs, status>>

\* an ensureVenv that creates the environment whether or not it is there
EnsureVenvRecreates(made) ==
    /\ prep.pc \in {"venv", "venv2"}
    /\ LET next == IF prep.pc = "venv" THEN AfterVenv(prep) ELSE "exec"
       IN  IF FALSE
           THEN prep' = [prep EXCEPT !.pc = next]
           ELSE CASE made = "venv" ->
                       prep' = [prep EXCEPT !.pc = next, !.venv = TRUE,
                                        !.log = prep.log \o <<"creating venv", "venv created">>]
                  [] made = "virtualenv" ->
                       prep' = [prep EXCEPT !.pc = next, !.venv = TRUE,
                                        !.log = prep.log \o <<"creating venv", "venv creation failed">>]
                  [] made = "none" ->
                       prep' = [prep EXCEPT !.pc = "done", !.result = "rejected", !.reason = "venv",
                                        !.log = prep.log \o <<"creating venv", "venv creation failed">>]
    /\ ev' = Event("ensureVenv", IF prep'.result = "rejected" THEN "threw" ELSE "ok", "none")
    /\ UNCHANGED <<aux, now, heap, schedules, saved, timers, armed, ops, procs, status>>

\* ensureVenv(userDir), called by startProcess (pc "venv") and by
\* installDependencies (pc "venv2"); made: what creating the environment
\* gives ("venv": python3 -m venv worked, "virtualenv": only the fallback
\* worked, "none": both failed)
EnsureVenv(made) ==
    /\ prep.pc \in {"venv", "venv2"}
    /\ LET next == IF prep.pc = "venv" THEN AfterVenv(prep) ELSE "exec"
       IN  IF prep.venv
           THEN prep' = [prep EXCEPT !.pc = next]
           ELSE CASE made = "venv" ->
                       prep' = [prep EXCEPT !.pc = next, !.venv = TRUE,
                                        !.log = prep.log \o <<"creating venv", "venv created">>]
                  [] made = "virtualenv" ->
                       prep' = [prep EXCEPT !.pc = next, !.venv = TRUE,
                                        !.log = prep.log \o <<"creating venv", "venv creation failed">>]
                  [] made = "none" ->
                       prep' = [prep EXCEPT !.pc = "done", !.result = "rejected", !.reason = "venv",
                                        !.log = prep.log \o <<"creating venv", "venv creation failed">>]
    /\ ev' = Event("ensureVenv", IF prep'.result = "rejected" THEN "threw" ELSE "ok", "none")
    /\ UNCHANGED <<aux, now, heap, schedules, saved, timers, armed, ops, procs, status>>

\* installDependencies up to the exec of the install command
InstallDependencies ==
    /\ prep.pc = "install"
    /\ prep' = [prep EXCEPT !.pc = IF ~prep.manifest THEN "connect"
                               ELSE IF prep.runtime = "python" THEN "venv2"
                               ELSE "exec"]
    /\ ev' = Event("installDependencies", "ok", "none")
    /\ UNCHANGED <<aux, now, heap, schedules, saved, timers, armed, ops, procs, status>>

\* an installDependencies that rejects when the install command fails
InstallDoneAborts(outcome) ==
    /\ prep.pc = "exec"
    /\ prep' = IF outcome = "ok"
               THEN [prep EXCEPT !.pc = "connect", !.install = outcome,
                                 !.log = prep.log \o <<"installing", "installed">>]
               ELSE [prep EXCEPT !.pc = "done", !.install = outcome, !.result = "rejected",
                                 !.reason = "install",
                                 !.log = prep.log \o <<"installing", "install error">>]
    /\ ev' = Event("install", IF outcome = "ok" THEN "ok" ELSE "threw", "none")
    /\ UNCHANGED <<aux, now, heap, schedules, saved, timers, armed, ops, procs, status>>

\* the callback of exec(command, {timeout}); outcome: "ok", "failed" (the
\* command exited with an error) or "timeout" (exec killed it)
InstallDone(outcome) ==
    /\ prep.pc = "exec"
    /\ prep' = [prep EXCEPT !.pc = "connect", !.install = outcome,
                        !.log = prep.log \o <<"installing",
                                            IF outcome = "ok" THEN "installed" ELSE "install error">>]
    /\ ev' = Event("install", "ok", "none")
    /\ UNCHANGED <<aux, now, heap, schedules, saved, timers, armed, ops, procs, status>>

\* await connect(), then pm2.start and its callback
StartSpawn(i, up) ==
    /\ prep.pc = "connect"
    /\ LET d == IF up THEN DaemonStart(procs, i, status[i] # "absent")
                ELSE [procs |-> procs, ok |-> FALSE]
       IN  /\ procs' = d.procs
           /\ prep' = [prep EXCEPT !.pc = "done",
                               !.result = IF d.ok THEN "resolved" ELSE "rejected",
                               !.reason = IF d.ok THEN "none"
                                          ELSE IF up THEN "start" ELSE "connect"]
           /\ ev' = Event("start", Settled(d.procs, "start", i, up, d.ok), "none")
    /\ UNCHANGED <<aux, now, heap, schedules, saved, timers, armed, ops, status>>

(* --------------------------- specification ---------------------------- *)
\* the scheduler's operations, its timers and the daemon's answers
Next ==
    \/ \E i \in Instances, a \in CreateActions, c \in CronInputs, e \in BOOLEAN : Create(i, a, c, e)
    \/ \E id \in TaskIds : \E u \in UpdateInputs(id) : Update(id, u)
    \/ \E id \in TaskIds : Delete(id)
    \/ \E id \in TaskIds : Toggle(id)
    \/ \E id \in TaskIds : RunNow(id)
    \/ \E t \in armed : TimerFire(t)
    \/ \E s \in Slots : Reply(s)
    \/ Tick

Spec == Init /\ [][Next]_vars

\* the request bodies of PUT /api/schedules/:scheduleId, which hands req.body
\* to update as it came: also a body naming another id, or a zero step
EditInputs(id) ==
    UpdateInputs(id)
    \cup {[cronExpression |-> EveryZero]}
    \cup {[id |-> j] : j \in TaskIds \ {id}}
    \cup {[id |-> j, cronExpression |-> Every15] : j \in TaskIds \ {id}}

\* the schedule routes alone, called while no timer comes due
EditNext ==
    \/ \E i \in Instances, a \in CreateActions, c \in CronInputs, e \in BOOLEAN : Create(i, a, c, e)
    \/ \E id \in TaskIds : \E u \in EditInputs(id) : Update(id, u)
    \/ \E id \in TaskIds : Delete(id)
    \/ \E id \in TaskIds : Toggle(id)

EditSpec == Init /\ [][EditNext]_vars

\* the supervisor's routes, with the tasks loaded at start-up firing and
\* being run on demand
SupervisorNext ==
    \/ \E i \in Instances : ApiStart(i)
    \/ \E i \in Instances : ApiStatus(i)
    \/ \E i \in Instances : ApiStop(i)
    \/ \E i \in Instances : ApiRestart(i)
    \/ \E i \in Instances : ApiDelete(i)
    \/ \E i \in Instances : ApiCreate(i)
    \/ \E id \in TaskIds : RunNow(id)
    \/ \E t \in armed : TimerFire(t)
    \/ \E s \in Slots : Reply(s)
    \/ Tick

\* schedules.json of the supervisor's runs: the stores above, the task
\* restarting or starting the instance
SupervisorStores ==
    {[i \in 1..Len(store) |-> [store[i] EXCEPT !.action = a]] :
        store \in Stores, a \in {"restart", "start"}}

SupervisorInit == \E store \in SupervisorStores : Boot(store)

\* the supervisor that prepares the instance before the spawn, with the
\* routes that stop and delete what it started
StartNext ==
    \/ \E i \in Instances, r \in {"node", "python"}, a \in BOOLEAN, m \in BOOLEAN :
          StartProcess(i, r, a, m)
    \/ \E made \in {"venv", "virtualenv", "none"} : EnsureVenv(made)
    \/ InstallDependencies
    \/ \E outcome \in {"ok", "failed", "timeout"} : InstallDone(outcome)
    \/ \E i \in Instances, up \in BOOLEAN : StartSpawn(i, up)
    \/ \E i \in Instances : ApiStop(i)
    \/ \E s \in Slots : Reply(s)

StartInit == Boot(<<>>)

StartSpec == StartInit /\ [][StartNext]_vars

SupervisorSpec == SupervisorInit /\ [][SupervisorNext]_vars

(* --------------------------- Memory Limiter --------------------------- *)
\* the maxMemory values of the requests: the bounds of the accepted range, a
\* value inside it, and the values next to it on either side
MemInputs == {49, 50, 300, 500, 501}

\* parseInt of a file of the cgroup: of a number, or of the literal "max"
ParseFile(content) == IF content = NoLimit THEN NaN ELSE content

\* Math.floor(memoryBytes * 0.9): nine tenths of a multiple of 2^20 are
\* either whole or at least 0.2 away from a whole number, so the
\* floating-point product has the floor of the exact one
SoftLimitCeil(memoryBytes) == (memoryBytes - memoryBytes \div 10) + 1
SoftLimit(memoryBytes) == memoryBytes - ((memoryBytes + 9) \div 10)

\* Math.round((current / max) * 100)
Percent(current, max) ==
    IF current = NaN \/ max = NaN THEN NaN
    ELSE (current * 100 + max \div 2) \div max

\* isAvailable()
IsAvailable(c) == c.available

\* createGroup(userId, memoryMB); mk, w1, w2: whether the mkdir and the two
\* writes succeed (execSync throws when the command fails, and the catch
\* block returns false).  The result is the cgroup afterwards and the value
\* returned
CreateGroup(c, memoryMB, mk, w1, w2) ==
    LET memoryBytes == memoryMB * 1024 * 1024
        made == IF c.group THEN c
                ELSE [c EXCEPT !.group = TRUE, !.max = NoLimit, !.high = NoLimit]
        limited == [made EXCEPT !.max = memoryBytes]
    IN  IF ~c.group /\ ~mk THEN [c |-> c, val |-> FALSE]
        ELSE IF ~w1 THEN [c |-> made, val |-> FALSE]
        ELSE IF ~w2 THEN [c |-> limited, val |-> FALSE]
        ELSE [c |-> [limited EXCEPT !.high = SoftLimit(memoryBytes)], val |-> TRUE]

\* deleteGroup(userId); rm: whether the rmdir succeeds
DeleteGroup(c, rm) ==
    IF ~c.group THEN [c |-> c, val |-> TRUE]
    ELSE IF ~rm THEN [c |-> c, val |-> FALSE]
    ELSE [c |-> [c EXCEPT !.group = FALSE, !.max = NULL, !.high = NULL], val |-> TRUE]

\* getMemoryUsage(userId): null when a file cannot be read
GetMemoryUsage(c, current) ==
    IF ~c.group THEN NoUsage
    ELSE [null |-> FALSE, current |-> ParseFile(current), max |-> ParseFile(c.max),
          percent |-> Percent(ParseFile(current), ParseFile(c.max))]

\* a boolean a call returned, as the request records it
Returned(b) == IF b THEN "true" ELSE "false"

\* what the request leaves behind: the state after it and its record
Done(c, op, res, val, mb) ==
    /\ cg' = [c EXCEPT !.last = [op |-> op, res |-> res, val |-> val, mb |-> mb,
                                 usage |-> NoUsage, found |-> cg.max]]
    /\ UNCHANGED <<core, conn, logf, con, auth>>

\* POST /api/instance
PostInstanceNeedsGroup(runtime, mem, mk, w1, w2) ==
    IF mem < 50 \/ mem > 500 THEN Done(cg, "create", 400, "none", mem)
    ELSE IF cg.rec # NoRecord THEN Done(cg, "create", 500, "none", mem)
    ELSE LET made == CreateGroup(cg, mem, mk, w1, w2)
             rec == [runtime |-> runtime, maxMemory |-> mem]
         IN  IF ~IsAvailable(cg) \/ ~made.val
             THEN Done(made.c, "create", 500, Returned(made.val), mem)
             ELSE Done([made.c EXCEPT !.rec = rec], "create", 200, Returned(made.val), mem)
PostInstance(runtime, mem, mk, w1, w2) ==
    IF mem < 50 \/ mem > 500 THEN Done(cg, "create", 400, "none", mem)
    ELSE IF cg.rec # NoRecord THEN Done(cg, "create", 500, "none", mem)
    ELSE LET created == [cg EXCEPT !.rec = [runtime |-> runtime, maxMemory |-> mem]]
             made == CreateGroup(created, mem, mk, w1, w2)
         IN  IF IsAvailable(cg)
             THEN Done(made.c, "create", 200, Returned(made.val), mem)
             ELSE Done(created, "create", 200, "none", mem)

\* GET /api/instance/:id; current: what memory.current reads, in bytes
GetInstance(current) ==
    IF cg.rec = NoRecord THEN Done(cg, "get", 404, "none", 0)
    ELSE /\ cg' = [cg EXCEPT !.last = [op |-> "get", res |-> 200, val |-> "usage", mb |-> 0,
                                        usage |-> GetMemoryUsage(cg, current),
                                        found |-> cg.max]]
         /\ UNCHANGED <<core, conn, logf, con, auth>>

\* DELETE /api/instance/:id: the daemon forgets the process, then the group
\* and the record go
DeleteInstance(rm) ==
    LET gone == DeleteGroup(cg, rm)
    IN  Done([gone.c EXCEPT !.rec = NoRecord, !.spawn = NoSpawn],
             "delete", 200, Returned(gone.val), 0)

\* PUT /api/instance/:id/config with a maxMemory
PutConfig(mem) ==
    IF cg.rec = NoRecord THEN Done(cg, "config", 404, "none", mem)
    ELSE Done([cg EXCEPT !.rec.maxMemory = mem], "config", 200, "none", mem)

\* pm2Manager.startProcess(userId, runtime, maxMemory): the options of the
\* pm2.start it sends; up: whether the daemon answers
Options(runtime, maxMemory) ==
    [interpreter |-> IF runtime = "python" THEN "python3" ELSE "node",
     script |-> IF runtime = "python" THEN "app.py" ELSE "app.js",
     threshold |-> maxMemory]

\* POST /api/instance/:id/start
StartInstance(up) ==
    IF cg.rec = NoRecord THEN Done(cg, "start", 404, "none", 0)
    ELSE IF ~up THEN Done(cg, "start", 500, "none", 0)
    ELSE Done([cg EXCEPT !.spawn = Options(cg.rec.runtime, cg.rec.maxMemory)],
              "start", 200, "none", 0)

\* _executeSchedule of a task whose action is 'start'
ScheduledStart(up) ==
    IF ~up THEN Done(cg, "scheduled", 500, "none", 0)
    ELSE Done([cg EXCEPT !.spawn = Options("node", 100)], "scheduled", 200, "none", 0)

\* assignProcess(userId, pid); w: whether the write to cgroup.procs succeeds,
\* which it cannot when there is no group
AssignProcess(w) == Done(cg, "assign", 0, Returned(cg.group /\ w), 0)

LimiterNext ==
    \/ \E r \in {"node", "python"}, m \in MemInputs, mk \in BOOLEAN, w1 \in BOOLEAN, w2 \in BOOLEAN :
          PostInstance(r, m, mk, w1, w2)
    \/ \E c \in {0, 10485760} : GetInstance(c)
    \/ \E rm \in BOOLEAN : DeleteInstance(rm)
    \/ \E m \in MemInputs : PutConfig(m)
    \/ \E up \in BOOLEAN : StartInstance(up)
    \/ \E up \in BOOLEAN : ScheduledStart(up)
    \/ \E w \in BOOLEAN : AssignProcess(w)

LimiterInit == \E a \in BOOLEAN : Core(<<>>) /\ cg = Limiter(a) /\ conn = Closed
                                  /\ logf = EmptyLog /\ con = NoConsole
                                  /\ auth = NoLogin

LimiterSpec == LimiterInit /\ [][LimiterNext]_vars

(* ------------------------ connection to the daemon --------------------- *)
\* the functions of pm2Manager; each awaits connect(), sends one request and
\* calls pm2.disconnect() first thing in the request's callback
CallOps == {"startProcess", "stopProcess", "restartProcess", "deleteProcess",
            "getStatus", "listAll"}

\* a function of pm2Manager is called: it is at `await connect()`
Begin(op, inst) ==
    /\ Len(conn.calls) < MaxCalls
    /\ conn' = [conn EXCEPT !.calls = Append(@, [op |-> op, inst |-> inst,
                                                 at |-> "connect"])]
    /\ UNCHANGED <<core, cg, logf, con, auth>>

\* the calls without the k-th
Settle(calls, k) == SubSeq(calls, 1, k - 1) \o SubSeq(calls, k + 1, Len(calls))

\* connect(): pm2.connect calls back, at once when the client is connected
\* already; up: without an error, and the call sends its request; otherwise
\* the call rejects
Connect(k, up) ==
    /\ k \in 1..Len(conn.calls)
    /\ conn.calls[k].at = "connect"
    /\ conn' = IF up THEN [open |-> TRUE, calls |-> [conn.calls EXCEPT ![k].at = "reply"]]
               ELSE [conn EXCEPT !.calls = Settle(@, k)]
    /\ UNCHANGED <<core, cg, logf, con, auth>>

\* the callback of the request: pm2.disconnect(), then the promise settles.
\* Whether the reply of a call still arrives once another call has closed the
\* client is up to pm2: the call may go on, or stay as it is for ever
Callback(k) ==
    /\ k \in 1..Len(conn.calls)
    /\ conn.calls[k].at = "reply"
    /\ conn' = [open |-> FALSE, calls |-> Settle(conn.calls, k)]
    /\ UNCHANGED <<core, cg, logf, con, auth>>

ConnNext ==
    \/ \E op \in CallOps, inst \in {"bot1", "bot2"} : Begin(op, inst)
    \/ \E k \in 1..MaxCalls, up \in BOOLEAN : Connect(k, up)
    \/ \E k \in 1..MaxCalls : Callback(k)

ConnSpec == StartInit /\ [][ConnNext]_vars

(* ------------------------------- log.txt ------------------------------- *)
MAX_LOG_SIZE == 1024 * 1024
\* the bytes of the entries appended (timestamp, message and newline): a
\* short notice, and the output of a command on one long line
EntrySizes == {40, 500000, 600000}

\* stats.size: the bytes of the file
RECURSIVE Size(_)
Size(lines) == IF lines = <<>> THEN 0 ELSE Head(lines) + Size(Tail(lines))

\* content.split('\n') gives the entries and the empty string after the last
\* newline; lines.slice(Math.floor(lines.length / 2)) keeps the entries from
\* that index on
KeepLines(lines) == SubSeq(lines, (Len(lines) + 1) \div 2 + 1, Len(lines))

\* append(userId, message); entry: the bytes it adds; w1, w2: whether the
\* write of the kept half and the append succeed (a failure is caught and
\* false returned)
LogAppend(entry, w1, w2) ==
    LET rotate == Size(logf.lines) > MAX_LOG_SIZE
        kept == IF rotate THEN KeepLines(logf.lines) ELSE logf.lines
    IN  /\ Len(kept) < MaxLines
        /\ logf' = IF rotate /\ ~w1 THEN [logf EXCEPT !.added = 0]
                   ELSE IF ~w2 THEN [lines |-> kept, added |-> 0]
                   ELSE [lines |-> kept \o <<entry>>, added |-> entry]
        /\ UNCHANGED <<core, cg, conn, con, auth>>

LogNext == \E e \in EntrySizes, w1 \in BOOLEAN, w2 \in BOOLEAN : LogAppend(e, w1, w2)

LogSpec == StartInit /\ [][LogNext]_vars

(* --------------------------- ConsoleManager ---------------------------- *)
\* the delay of the timeout that killProcess sets, in seconds
SessionHours == 24
GraceSeconds == 5

\* the child that spawn returns and the log stream opened for it.  termAt,
\* killAt: when SIGTERM and SIGKILL were sent to it (NULL: never); armedAt:
\* when the timeout of killProcess was set; timer: that timeout is pending;
\* stream: the log stream of its entry; late: writes to the stream after its end
Child == [state |-> "running", termAt |-> NULL, killAt |-> NULL, armedAt |-> NULL,
          timer |-> FALSE, stream |-> "open", late |-> 0]

\* the body of killProcess for an entry that is in the map: a signal goes
\* only to a child that has not exited (kill returns false otherwise)
KillEntry(c) ==
    LET k == c.entry
        ch == c.children[k]
        hit == [ch EXCEPT !.termAt = IF ch.state = "running" THEN c.time ELSE @,
                          !.armedAt = c.time, !.timer = TRUE, !.stream = "ended"]
    IN  [c EXCEPT !.children[k] = hit, !.entry = 0]

\* killProcess(instanceId)
KillProcess ==
    /\ con.entry # 0
    /\ con' = KillEntry(con)
    /\ UNCHANGED <<core, cg, conn, logf, auth>>

\* startProcess(instanceId, runtime, options): kills the child in the map,
\* throws when the directory or the main file is missing (dir), spawns
ConsoleStart(dir) ==
    /\ Len(con.children) < MaxChildren
    /\ LET killed == IF con.entry = 0 THEN con ELSE KillEntry(con)
       IN  con' = IF ~dir THEN killed
                  ELSE [killed EXCEPT !.children = Append(@, Child),
                                      !.entry = Len(con.children) + 1]
    /\ UNCHANGED <<core, cg, conn, logf, auth>>

\* the callback of the timeout set by killProcess: SIGKILL, which reaches the
\* child unless it has exited
KillTimerSpares(k) ==
    /\ k \in 1..Len(con.children)
    /\ con.children[k].timer
    /\ con.time >= con.children[k].armedAt + GraceSeconds
    /\ con' = [con EXCEPT !.children[k].timer = FALSE]
    /\ UNCHANGED <<core, cg, conn, logf, auth>>
KillTimer(k) ==
    /\ k \in 1..Len(con.children)
    /\ con.children[k].timer
    /\ con.time >= con.children[k].armedAt + GraceSeconds
    /\ con' = [con EXCEPT !.children[k].timer = FALSE,
                          !.children[k].killAt =
                              IF con.children[k].state = "running" THEN con.time ELSE @]
    /\ UNCHANGED <<core, cg, conn, logf, auth>>

\* the child exits (by itself, or of a signal) and its 'close' handler runs:
\* it writes the exit message to the log stream of its closure, ends the
\* stream and deletes the map's entry for the instance id
ChildClose(k) ==
    /\ k \in 1..Len(con.children)
    /\ con.children[k].state = "running"
    /\ con' = [con EXCEPT !.children[k].state = "exited",
                          !.children[k].late =
                              IF con.children[k].stream = "ended" THEN 1 ELSE @,
                          !.children[k].stream = "ended",
                          !.entry = 0]
    /\ UNCHANGED <<core, cg, conn, logf, auth>>

\* the child writes to stdout or stderr: the 'data' handler writes the output
\* to the log stream of its closure
ChildOutput(k) ==
    /\ k \in 1..Len(con.children)
    /\ con.children[k].state = "running"
    /\ con' = [con EXCEPT !.children[k].late =
                              IF con.children[k].stream = "ended" THEN 1 ELSE @]
    /\ UNCHANGED <<core, cg, conn, logf, auth>>

\* a second passes; a timeout that is due runs before the next one does
ConsoleTick ==
    /\ con.time < MaxClock
    /\ \A k \in 1..Len(con.children) :
           con.children[k].timer => con.time < con.children[k].armedAt + GraceSeconds
    /\ con' = [con EXCEPT !.time = @ + 1]
    /\ UNCHANGED <<core, cg, conn, logf, auth>>

ConsoleNext ==
    \/ KillProcess
    \/ \E dir \in BOOLEAN : ConsoleStart(dir)
    \/ \E k \in 1..MaxChildren : KillTimer(k)
    \/ \E k \in 1..MaxChildren : ChildClose(k)
    \/ \E k \in 1..MaxChildren : ChildOutput(k)
    \/ ConsoleTick

ConsoleSpec == StartInit /\ [][ConsoleNext]_vars

(* ------------------------------ sessions ------------------------------- *)
Usernames == {"admin", "bob"}

\* login(username, password); matches: the hash of password is the stored one
Login(username, matches) ==
    /\ \E k \in 1..MaxTokens : auth.issued[k] = NoSession
    /\ LET token == CHOOSE k \in 1..MaxTokens :
                       /\ auth.issued[k] = NoSession
                       /\ \A j \in 1..MaxTokens : auth.issued[j] = NoSession => k <= j
           session == [username |-> username, expiresAt |-> auth.time + SessionHours]
       IN  IF username \notin auth.users \/ ~matches
           THEN auth' = [auth EXCEPT !.last = [op |-> "login", token |-> 0, res |-> "null"]]
           ELSE auth' = [auth EXCEPT !.sessions[token] = session,
                                     !.issued[token] = session,
                                     !.last = [op |-> "login", token |-> token, res |-> "session"]]
    /\ UNCHANGED <<core, cg, conn, logf, con>>

\* logout(token)
Logout(token) ==
    /\ auth' = [auth EXCEPT !.sessions[token] = NoSession,
                            !.revoked = IF auth.issued[token] = NoSession
                                        THEN @ ELSE @ \cup {token},
                            !.last = [op |-> "logout", token |-> token, res |-> "ok"]]
    /\ UNCHANGED <<core, cg, conn, logf, con>>

\* validateToken(token); token 0 is the empty token
ValidateToken(token) ==
    /\ IF token = 0 \/ auth.sessions[token] = NoSession
       THEN auth' = [auth EXCEPT !.last = [op |-> "validate", token |-> token, res |-> "null"]]
       ELSE IF auth.sessions[token].expiresAt < auth.time
       THEN auth' = [auth EXCEPT !.sessions[token] = NoSession,
                                 !.last = [op |-> "validate", token |-> token, res |-> "null"]]
       ELSE auth' = [auth EXCEPT !.last = [op |-> "validate", token |-> token, res |-> "session"]]
    /\ UNCHANGED <<core, cg, conn, logf, con>>

\* createUser(username, password, role)
CreateUser(username) ==
    /\ IF username \in auth.users
       THEN auth' = [auth EXCEPT !.last = [op |-> "createUser", token |-> 0, res |-> "threw"]]
       ELSE auth' = [auth EXCEPT !.users = @ \cup {username},
                                 !.last = [op |-> "createUser", token |-> 0, res |-> "ok"]]
    /\ UNCHANGED <<core, cg, conn, logf, con>>

\* deleteUser(username)
DeleteUser(username) ==
    /\ IF username = "admin"
       THEN auth' = [auth EXCEPT !.last = [op |-> "deleteUser", token |-> 0, res |-> "threw"]]
       ELSE auth' = [auth EXCEPT !.users = @ \ {username},
                                 !.revoked = @ \cup {k \in 1..MaxTokens :
                                                        auth.issued[k].username = username},
                                 !.last = [op |-> "deleteUser", token |-> 0, res |-> "ok"]]
    /\ UNCHANGED <<core, cg, conn, logf, con>>

\* new Date() moves on
AuthTick ==
    /\ auth.time < MaxAuthTime
    /\ auth' = [auth EXCEPT !.time = @ + AuthStep,
                            !.last = [op |-> "tick", token |-> 0, res |-> "none"]]
    /\ UNCHANGED <<core, cg, conn, logf, con>>

AuthNext ==
    \/ \E u \in Usernames, m \in BOOLEAN : Login(u, m)
    \/ \E k \in 1..MaxTokens : Logout(k)
    \/ \E k \in 0..MaxTokens : ValidateToken(k)
    \/ \E u \in Usernames : CreateUser(u)
    \/ \E u \in Usernames : DeleteUser(u)
    \/ AuthTick

AuthSpec == StartInit /\ [][AuthNext]_vars

LifecycleSerialized ==
    \A s, r \in Slots :
        (s # r /\ ops[s] # Idle /\ ops[r] # Idle) => ops[s].inst # ops[r].inst

\* C3: when toggle (to disabled), update with enabled = false, or delete
\* returns for a task, no pending timer is left that would execute the task.
DisarmedOnReturn ==
    [][\A id \in TaskIds :
          LET oid == Find(heap, schedules, id)
          IN  /\ (oid # 0 /\ Toggle(id) /\ ev'.res = "ok" /\ ~heap'[oid].enabled)
                    => \A t \in armed' : t.oid # oid
              /\ (oid # 0 /\ ev'.res = "ok"
                  /\ \E u \in UpdateInputs(id) :
                        "enabled" \in DOMAIN u /\ ~u.enabled /\ Update(id, u))
                    => \A t \in armed' : t.oid # oid
              /\ (oid # 0 /\ Delete(id)) => \A t \in armed' : t.oid # oid
      ]_vars

\* C4: a task is never executed twice at once: a runNow and a timer fire of
\* the same task that coincide give one execution.
NoDoubleExecution ==
    \A s, r \in Slots :
        (s # r /\ ops[s].by \in {"timer", "runNow"} /\ ops[r].by \in {"timer", "runNow"})
            => ops[s].oid # ops[r].oid

\* C5: every execution of a task that is still in the task array, whether its
\* action succeeded or failed, ends with lastRun set to the time of the
\* execution, nextRun recomputed, the task array written to schedules.json,
\* and the completion line logged.
EveryExecutionRecorded ==
    [][\A o \in TaskIds :
          LET target == Find(heap, schedules, heap[o].id)
              ended ==
                  \/ \E s \in Slots : ops[s].by \in {"timer", "runNow"} /\ ops[s].oid = o /\ Reply(s)
                  \/ /\ heap[o].action \in Actions \ SupervisorActions
                     /\ \/ \E t \in armed : t.oid = o /\ TimerFire(t)
                        \/ \E id \in TaskIds : Find(heap, schedules, id) = o /\ RunNow(id)
          IN  (ended /\ target # 0)
                  => /\ ev'.res = "completed"
                     /\ heap'[target].lastRun = now
                     /\ heap'[target].nextRun = CalculateNextRun(heap[o].cronExpression, now)
                     /\ saved' = Snapshot(heap', schedules')
      ]_vars

\* C6: create with "*/15 * * * *" adds the task, and the task's nextRun is
\* within the 15 minutes after the creation time.
CreateEvery15Succeeds ==
    [][\A i \in Instances, a \in CreateActions, e \in BOOLEAN :
          Create(i, a, Every15, e)
              => /\ ev'.res = "ok"
                 /\ \E o \in Listed(schedules') \ Listed(schedules) :
                       /\ heap'[o].cronExpression = Every15
                       /\ heap'[o].nextRun > now
                       /\ heap'[o].nextRun <= now + ParseStep(Every15[1])
      ]_vars

\* C7: a timer of an enabled "0 3 * * *" task invokes the supervisor only
\* when the clock reads 03:00, once, and the execution sets lastRun.
DailyTaskRunsAtItsTime ==
    [][\A s \in Slots :
          (/\ ops[s].by = "timer"
           /\ heap[ops[s].oid].cronExpression = Daily0300
           /\ Reply(s))
              => /\ now % MinutesPerDay
                       = ParseInt(Daily0300[2]) * MinutesPerHour + ParseInt(Daily0300[1])
                 /\ \A r \in Slots \ {s} :
                       ~(ops[r].by = "timer" /\ ops[r].oid = ops[s].oid)
                 /\ heap'[ops[s].oid].lastRun = now
      ]_vars

\* C8: a toggle that enables a task leaves exactly one pending timer for it,
\* due at a freshly computed nextRun, also when the stored nextRun has passed.
ToggleOnArmsAtFreshNextRun ==
    [][\A id \in TaskIds :
          LET oid == Find(heap, schedules, id)
          IN  (oid # 0 /\ Toggle(id) /\ ev'.res = "ok" /\ heap'[oid].enabled)
                  => /\ Cardinality({t \in armed' : t.oid = oid}) = 1
                     /\ \A t \in armed' :
                           t.oid = oid
                               => t.due = CalculateNextRun(heap'[oid].cronExpression, now)
      ]_vars

\* C9: after construction every enabled task has one pending timer, due at
\* its stored nextRun, or at a recomputed nextRun when the stored one has
\* passed; a disabled task has none.
StartupArmsAtNextRun ==
    ev.op = "init" =>
        \A o \in Listed(schedules) :
            LET mine == {t \in armed : t.oid = o}
                first == IF heap[o].nextRun > now
                         THEN heap[o].nextRun
                         ELSE CalculateNextRun(heap[o].cronExpression, now)
            IN  IF heap[o].enabled
                THEN Cardinality(mine) = 1 /\ \A t \in mine : t.due = first
                ELSE mine = {}

\* C10: between operations the timer registry matches the task array: an
\* enabled task has exactly one pending timer, which the registry holds; a
\* disabled task has none; every pending timer is held by the registry for a
\* task of the array.
RegistrySynchronized ==
    /\ \A o \in Listed(schedules) :
          LET mine == {t \in armed : t.oid = o}
          IN  IF heap[o].enabled
              THEN Cardinality(mine) = 1 /\ \A t \in mine : timers[heap[o].id] = t.h
              ELSE mine = {} /\ timers[heap[o].id] = 0
    /\ \A t \in armed :
          t.oid \in Listed(schedules) /\ timers[heap[t.oid].id] = t.h

\* C11: after every operation the contents of schedules.json equal the task
\* array in memory.
PersistedEqualsMemory ==
    saved = Snapshot(heap, schedules)

\* C12: whenever an operation sets a task's lastRun or changes its
\* cronExpression, the same operation leaves the task with the nextRun
\* computed from that expression at that time.
NextRunFollowsLastRunAndCron ==
    [][\A o \in TaskIds :
          (/\ heap[o] \notin {NoTask, Tomb}
           /\ heap'[o] \notin {NoTask, Tomb}
           /\ \/ heap'[o].lastRun # heap[o].lastRun
              \/ heap'[o].cronExpression # heap[o].cronExpression)
              => heap'[o].nextRun = CalculateNextRun(heap'[o].cronExpression, now)
      ]_vars

\* C13: update, toggle, runNow and delete of an id that no task has report
\* not-found and leave the task array, the file and the timers as they were.
UnknownIdIsNotFound ==
    [][\A id \in TaskIds :
          (/\ Find(heap, schedules, id) = 0
           /\ \/ \E u \in UpdateInputs(id) : Update(id, u)
              \/ Toggle(id)
              \/ RunNow(id)
              \/ Delete(id))
              => /\ ev'.res = "notfound"
                 /\ UNCHANGED <<heap, schedules, saved, timers, armed, ops>>
      ]_vars

\* C14: for an instance with no process in the daemon (never started),
\* getStatus resolves with not_found, and stopProcess and restartProcess
\* reject and leave the daemon's table as it was.
NeverStartedIsNotFound ==
    [][\A s \in Slots :
          (Answer(s, TRUE) /\ Named(procs, ops[s].inst) = {})
              => /\ (ops[s].op = "describe" /\ ops[s].by = "api") => ev'.res = "not_found"
                 /\ ops[s].op \in {"stop", "restart"}
                       => /\ procs' = procs
                          /\ ops[s].by = "api" => ev'.res = "threw"
      ]_vars

\* C14's case: a stop or a restart of an instance that has no process was
\* answered with an error, and the daemon still has no process
StopOfNeverStartedRejected ==
    /\ ev.op \in {"stop", "restart"}
    /\ ev.res = "threw"
    /\ procs = {}

\* C15: deleteProcess resolves whatever the state of the instance's process,
\* and getStatus then reports not_found.
DeleteIsTotal ==
    [][\A s \in Slots :
          (Answer(s, TRUE) /\ ops[s].op = "delete")
              => /\ ev'.res = "ok"
                 /\ GetStatus(procs', ops[s].inst) = "not_found"
      ]_vars

StartNeedsDirectory ==
    [][\A s \in Slots :
          (ops[s] = Idle /\ ops'[s] # Idle /\ ops'[s].op = "start")
              => status[ops'[s].inst] # "absent"
      ]_vars

\* C20: every online process the daemon started for an instance is in the
\* instance's resource group.
EveryLiveProcessAssigned ==
    \A i \in Instances :
        \A p \in Named(procs, i) : p.status = "online" => p.pid \in CgroupProcs(i)

\* C18: a dependency installation that failed or timed out is written to the
\* log and does not reject startProcess: the call goes on to the spawn, and
\* only the daemon can still make it fail.
InstallFailureDoesNotAbort ==
    prep.install \in {"failed", "timeout"}
        => /\ \E k \in 1..Len(prep.log) : prep.log[k] = "install error"
           /\ prep.pc \in {"connect", "done"}
           /\ prep.result = "rejected" => prep.reason \in {"connect", "start"}

\* C18's case: the installation timed out and startProcess resolved with the
\* process running
StartedAfterInstallTimeout ==
    /\ prep.install = "timeout"
    /\ prep.result = "resolved"
    /\ ev = Event("start", "ok", "none")
    /\ \E p \in procs : p.status = "online"

\* C19: startProcess rejects only because the directory is missing or the
\* daemon cannot be reached; the failure of an auxiliary step never rejects it.
OnlyNotFoundOrUnavailable ==
    prep.result = "rejected" => prep.reason \in {"connect", "start"}

LimiterReturnsBooleansAndNumbers ==
    /\ cg.last.op \in {"create", "delete", "assign"}
            => cg.last.val \in {"none", "true", "false"}
    /\ (cg.last.op = "get" /\ cg.last.res = 200 /\ ~cg.last.usage.null)
            => /\ cg.last.usage.current # NaN
               /\ cg.last.usage.max # NaN
               /\ cg.last.usage.percent # NaN

ScheduledStartUsesRegistry ==
    [][(cg'.last.op = "scheduled" /\ cg'.last.res = 200 /\ cg.rec # NoRecord)
            => cg'.spawn = Options(cg.rec.runtime, cg.rec.maxMemory)]_vars

\* C27: no call's disconnect closes the shared connection to the daemon while
\* another call that has connected is still waiting for its reply.
NoDisconnectWhileAwaited ==
    [][(conn.open /\ ~conn'.open)
            => \A j \in 1..Len(conn'.calls) : conn'.calls[j].at # "reply"]_vars

\* C29: right after an append that wrote its entry, log.txt holds at most
\* MAX_LOG_SIZE bytes plus the bytes of that entry.
LogSizeBounded ==
    logf.added > 0 => Size(logf.lines) <= MAX_LOG_SIZE + logf.added

ScheduledActionUpdatesRegistry ==
    [][\A s \in Slots :
          (ops[s] # Idle /\ ops[s].by # "api" /\ ops' = Pending(ops, s)
              /\ ev' = Event("execute", "ok", "completed"))
            => status'[ops[s].inst] = ApiContinue(status, ops[s].op, ops[s].inst, TRUE)[ops[s].inst]]_vars

OneLiveChild ==
    Cardinality({k \in 1..Len(con.children) : con.children[k].state = "running"}) <= 1

\* C33: the exit of a child that is not the one in the map leaves the map's
\* entry for the instance as it is.
ExitKeepsSuccessorEntry ==
    [][\A k \in 1..Len(con.children) :
          (con.children[k].state = "running" /\ con'.children[k].state = "exited"
              /\ con.entry # 0 /\ con.entry # k)
            => con'.entry = con.entry]_vars

\* C34: no handler of a child writes to a log stream that has been ended.
NoWriteAfterEnd ==
    \A k \in 1..Len(con.children) : con.children[k].late = 0

\* C35: when create, update or toggle has returned, and when an execution
\* started by a timer or by runNow has completed, the nextRun of every
\* enabled task is the time at which the timer registered for it is due.
NextRunIsTimerDue ==
    (\/ ev.op \in {"create", "update", "toggle"} /\ ev.res = "ok"
     \/ ev.op \in {"timer", "runNow", "execute"} /\ ev.res = "completed")
        => \A o \in Listed(schedules) :
              heap[o].enabled
                => \E t \in armed : t.h = timers[heap[o].id] /\ t.due = heap[o].nextRun

\* C36: every armed timer repeats with an interval of at least one minute.
ArmedIntervalAtLeastMinute ==
    \A t \in armed : t.interval >= 1

\* C37: a create or update that throws leaves the task array, the persisted
\* store, the timer registry and the pending timers as they were.
RejectionIsAtomic ==
    [][(ev'.op \in {"create", "update"} /\ ev'.res = "threw")
          => /\ Snapshot(heap', schedules') = Snapshot(heap, schedules)
             /\ saved' = saved
             /\ timers' = timers
             /\ armed' = armed]_vars

\* C38: task ids are pairwise distinct, and every entry of the timer registry
\* is filed under the id of the task whose pending timer it holds.
IdsDistinctAndRegistryKeyed ==
    /\ \A i, j \in 1..Len(schedules) :
          i # j => heap[schedules[i]].id # heap[schedules[j]].id
    /\ \A k \in TaskIds :
          timers[k] # 0 => \A t \in armed : t.h = timers[k] => heap[t.oid].id = k

\* C39: while an instance is deleted, no timer of a task bound to its id is
\* armed.
NoTimerForDeletedInstance ==
    \A i \in Instances :
        status[i] = "absent" => \A t \in armed : heap[t.oid].instanceId # i


\* C40: validateToken hands out a session exactly for a token that a login
\* issued, that was not logged out, whose 24 hours have not passed and whose
\* user was not deleted since.
AcceptedExactlyWhileValid ==
    auth.last.op = "validate"
        => (auth.last.res = "session"
              <=> /\ auth.last.token # 0
                  /\ auth.issued[auth.last.token] # NoSession
                  /\ auth.last.token \notin auth.revoked
                  /\ auth.time <= auth.issued[auth.last.token].expiresAt)
====
